---- MODULE Spec2Model ----
(***************************************************************************)
(* The plan-generation endpoint of pace-up-backend: one HTTP handler that  *)
(* authenticates the caller, builds a prompt from profileData, calls a     *)
(* generation provider, turns the reply into a workout plan and upserts    *)
(* either the plan or a diagnostic record into the 'profiles' table.       *)
(*                                                                         *)
(* The repository holds six versions of that handler; `variant` names the  *)
(* one that is deployed:                                                   *)
(*   "generatePlan_a"  src/api/generatePlan.ts   lines  31-108 (gpt-4o)    *)
(*   "generatePlan_b"  src/api/generatePlan.ts   lines 134-226 (gemini)    *)
(*   "part_000"        src/unnamed/part_000      (Vertex AI over REST)     *)
(*   "part_001"        src/unnamed/part_001      (gemini, no diagnostics)  *)
(*   "part_002"        src/unnamed/part_002      (gpt-4o-mini, validation) *)
(*   "part_003"        src/unnamed/part_003      (gemini-1.5-pro)          *)
(*                                                                         *)
(* Encoding.  A nullable / optional JavaScript value is a set with at most *)
(* one element: {} is null or undefined, {v} is the value v.  A string     *)
(* that the code takes apart (the Authorization header, the provider's     *)
(* reply) is a sequence of tokens; other strings are TLA+ strings.         *)
(***************************************************************************)
EXTENDS Naturals, Sequences, FiniteSets, TLC

VARIABLES
    variant,    \* which version of the handler is deployed
    credsOk,    \* FIREBASE_SERVICE_ACCOUNT_KEY parsed at module load
    profiles,   \* the 'profiles' table: subject id -> row
    inv,        \* per invocation: the handler's locals, response and calls
    runs,       \* invocations started so far
    last,       \* the invocation that is being repeated, and the table it left
    probe       \* a reply text and what the deployed version makes of it

vars == <<variant, credsOk, profiles, inv, runs, last, probe>>

----------------------------------------------------------------------------
(* Bounds *)

\* invocations started in one behaviour
MaxRuns == 2

\* tokens in a reply text handed to the extractor
MaxTextLen == 5

----------------------------------------------------------------------------
(* Values *)

Variants ==
    {"generatePlan_a", "generatePlan_b", "part_000", "part_001", "part_002", "part_003"}

Procs == {"p1", "p2"}
SeqProcs == {"p1"}

Subjects == {"A", "B"}

Null == {}
Some(v) == {v}
Get(o) == CHOOSE v \in o : TRUE

WeekKeys == {"week1", "week2", "week3", "week4"}

\* columns of a row of 'profiles' other than the key, id
Columns ==
    {"experience", "goal", "weight", "height", "run_days",
     "workout_plan", "planGenerationError", "rawAIResponse"}

----------------------------------------------------------------------------
(* Requests *)

Methods == {"POST", "GET"}

\* Authorization header values; Null is a request without the header
Headers ==
    { Null,
      Some(<<"Basic ", "tokenA">>),
      Some(<<"Bearer ">>),
      Some(<<"Bearer ", "tokenA">>),
      Some(<<"Bearer ", "tokenB">>),
      Some(<<"Bearer ", "expired">>) }

ProfBeginner ==
    [experience |-> Some("beginner"), goal |-> Some("5k"),
     run_days |-> Some(<<"Monday", "Wednesday", "Friday">>)]

ProfComplete ==
    [experience |-> Some("advanced"), goal |-> Some("10k"),
     weight |-> Some(70), height |-> Some(175),
     run_days |-> Some(<<"Tuesday">>)]

ProfNoRunDays ==
    [experience |-> Some("beginner"), goal |-> Some("5k")]

ProfWithId ==
    [id |-> Some("B"), experience |-> Some("beginner"), goal |-> Some("5k"),
     run_days |-> Some(<<"Monday">>)]

\* request.body.profileData; Null is a body without it
Bodies ==
    {Null, Some(ProfBeginner), Some(ProfComplete), Some(ProfNoRunDays), Some(ProfWithId)}

----------------------------------------------------------------------------
(* Provider replies *)

TextFull == <<"{", "week1", "week2", "week3", "week4", "}">>
TextWeek1 == <<"{", "week1", "}">>
TextWrapped == <<"prose", "{", "week1", "}", "prose">>
TextProse == <<"prose", "prose">>
TextBroken == <<"{", "prose", "}">>
TextFenced == <<"fence_json", " ", "{", "week1", "week2", "week3", "week4", "}", " ", "fence">>
TextEmpty == <<>>

RawTexts ==
    {TextFull, TextWeek1, TextWrapped, TextProse, TextBroken, TextFenced, TextEmpty}

\* what the provider call comes back with
\* "unsupported" is the provider refusing the model name (404 model not found)
ProviderOutcomes ==
    {[kind |-> "throw", text |-> TextEmpty], [kind |-> "unsupported", text |-> TextEmpty],
     [kind |-> "null", text |-> TextEmpty]}
        \cup {[kind |-> "text", text |-> t] : t \in RawTexts}

\* an upsert resolves without an error, resolves with one, or rejects
StoreOutcomes == {"ok", "error", "throw"}

----------------------------------------------------------------------------
(* The bearer credential: request.headers.authorization?.split('Bearer ')[1] *)

\* positions of the separator 'Bearer ' in the header
SepAt(h) == {i \in 1..Len(h) : h[i] = "Bearer "}

Min(S) == CHOOSE x \in S : \A y \in S : x <= y
Max(S) == CHOOSE x \in S : \A y \in S : x >= y

\* element [1] of the split: what lies between the first separator and the
\* next one (or the end); undefined when the header is absent or has no separator
BearerToken(header) ==
    IF header = Null THEN Null
    ELSE LET h == Get(header)
             first == Min(SepAt(h))
             rest == {i \in SepAt(h) : i > first}
             stop == IF rest = {} THEN Len(h) + 1 ELSE Min(rest)
         IN  IF SepAt(h) = {} THEN Null
             ELSE Some(SubSeq(h, first + 1, stop - 1))

\* !firebaseToken: undefined or the empty string
NoToken(header) == BearerToken(header) = Null \/ BearerToken(header) = Some(<<>>)

\* admin.auth().verifyIdToken(token): the subject id of a valid credential,
\* Null when the verifier rejects it (it throws)
VerifyIdToken(token) ==
    IF token = <<"tokenA">> THEN Some("A")
    ELSE IF token = <<"tokenB">> THEN Some("B")
    ELSE Null

----------------------------------------------------------------------------
(* Errors: message and stack, as the catch block reads them *)

\* an Error instance carries a stack that begins with its message
Error(msg) == [message |-> msg, stack |-> Some(<<"stack", msg>>)]

\* the error object a failed upsert returns has a message and no stack
StoreError == [message |-> "store error", stack |-> Null]

MsgNoToken == "Nenhum token fornecido."
MsgNoProfile == "profileData e obrigatorio."
MsgMethod == "Metodo nao permitido."
MsgNoServiceAccount == "FIREBASE_SERVICE_ACCOUNT_KEY nao configurada corretamente"
MsgNoApp == "The default Firebase app does not exist."
MsgBadToken == "Firebase ID token is invalid or has expired."
MsgJoinOfUndefined == "Cannot read properties of undefined (reading 'join')"
MsgProvider == "provider request failed"
MsgModelNotFound == "model is not found or is not supported"
MsgStoreThrow == "fetch failed"
MsgVertexNoText == "VertexAI nao retornou texto valido"
MsgSyntax == "Unexpected token in JSON"
MsgNoJson == "Nenhum JSON valido encontrado na resposta da IA."
MsgParse002 == "Erro ao parsear JSON da IA."
MsgIncomplete == "Plano incompleto gerado pela IA."

\* the message of the empty-reply check, per version
MsgEmpty(v) ==
    CASE v = "generatePlan_a" -> "A OpenAI nao retornou conteudo."
      [] v = "part_002" -> "Resposta vazia da OpenAI."
      [] v = "part_000" -> "A IA nao retornou conteudo valido."
      [] OTHER -> "A IA nao retornou conteudo."

Sentinel == <<"Nenhuma resposta recebida da IA.">>

----------------------------------------------------------------------------
(* From the provider's reply to a plan *)

\* aiResponse.match(/\{[\s\S]*\}/): greedy, from the first '{' to the last '}'
OpenAt(t) == {i \in 1..Len(t) : t[i] = "{"}
CloseAt(t) == {i \in 1..Len(t) : t[i] = "}"}

HasJsonMatch(t) ==
    /\ OpenAt(t) # {}
    /\ \E j \in CloseAt(t) : j > Min(OpenAt(t))

\* JsonMatch with a lazy quantifier, /\{[\s\S]*?\}/: from the first '{' to
\* the first '}' after it
JsonMatchLazy(t) ==
    SubSeq(t, Min(OpenAt(t)), Min({j \in CloseAt(t) : j > Min(OpenAt(t))}))

JsonMatch(t) == SubSeq(t, Min(OpenAt(t)), Max(CloseAt(t)))

\* aiResponse.replace(/```json/g, "").replace(/```/g, "").trim()
IsFence(tok) == tok \in {"fence_json", "fence"}
NotFence(tok) == ~IsFence(tok)
NotSpace(tok) == tok # " "

Trim(t) ==
    LET keep == {i \in 1..Len(t) : t[i] # " "}
    IN  IF keep = {} THEN <<>> ELSE SubSeq(t, Min(keep), Max(keep))

StripFences(t) == Trim(SelectSeq(t, NotFence))

\* JSON.parse: white space between tokens is skipped; the document is an
\* object whose members are week entries ("weekN": [ one day ])
ParseOk(t) ==
    LET d == SelectSeq(t, NotSpace)
    IN  /\ Len(d) >= 2
        /\ d[1] = "{"
        /\ d[Len(d)] = "}"
        /\ \A i \in 2..(Len(d) - 1) : d[i] \in WeekKeys

JsonParse(t) ==
    LET d == SelectSeq(t, NotSpace)
    IN  [k \in {d[i] : i \in 2..(Len(d) - 1)} |-> <<"day">>]

----------------------------------------------------------------------------
(* What differs between the versions of the handler *)

\* part_000 refuses to run without the parsed service account
ChecksServiceAccount(v) == v = "part_000"

\* userId is declared outside the try block, so the catch block can read it;
\* in part_001 it is a const inside the try and the catch writes nothing
CatchSeesUserId(v) == v # "part_001"

\* the prompt is built with profileData.run_days.join(", "); part_001 embeds
\* JSON.stringify(profileData) instead
JoinsRunDays(v) == v # "part_001"

\* the provider can hand back no content at all (null content, no candidate)
CanReturnNoContent(v) == v \in {"generatePlan_a", "part_002", "part_000"}

\* if (!aiResponse) throw ...; part_001 has no such check (in part_000
\* callVertexAI has already thrown on an empty text before it is reached)
HasEmptyCheck(v) == v # "part_001"

\* const jsonMatch = aiResponse.match(/\{[\s\S]*\}/)
UsesJsonMatch(v) == v \in {"generatePlan_b", "part_000", "part_003"}

\* the text handed to JSON.parse
Document(v, text) ==
    CASE UsesJsonMatch(v) -> JsonMatch(text)
      [] v = "part_001" -> StripFences(text)
      [] OTHER -> text

\* part_002 rejects a plan without one of the four weeks
RequiresAllWeeks(v) == v = "part_002"

\* planGenerationError: null, rawAIResponse: null in finalUserData
NullsDiagnostics(v) == v # "part_001"

\* the 200 body carries workout_plan
RespondsWithPlan(v) == v \notin {"generatePlan_b", "part_001"}

----------------------------------------------------------------------------
(* The prompt: a template literal, here the sequence of its pieces *)

Placeholder == "nao informado"

\* profileData.k, undefined when the member is missing
Field(pd, k) == IF k \in DOMAIN pd THEN pd[k] ELSE Null

\* ${profileData.k} in a template literal
Render(o) == IF o = Null THEN "undefined" ELSE Get(o)

\* ${profileData.k || "nao informado"} for a number
RenderOr(o) == IF o = Null \/ o = Some(0) THEN Placeholder ELSE ToString(Get(o))

\* days.join(sep)
RECURSIVE Join(_, _)
Join(days, sep) ==
    IF Len(days) = 0 THEN <<>>
    ELSE IF Len(days) = 1 THEN <<days[1]>>
    ELSE <<days[1], sep>> \o Join(Tail(days), sep)

\* the profile lines of the prompt with weight and height
WritesWeightAndHeight(v) == v \in {"generatePlan_b", "part_002", "part_003"}

ProfileLines(v, pd) ==
    <<"Experiencia: ", Render(Field(pd, "experience")),
      "Objetivo Final: ", Render(Field(pd, "goal"))>>
    \o (IF WritesWeightAndHeight(v)
        THEN <<"Peso: ", RenderOr(Field(pd, "weight")), " kg",
               "Altura: ", RenderOr(Field(pd, "height")), " cm">>
        ELSE <<>>)
    \o <<"Dias disponiveis para correr: ">> \o Join(Get(pd["run_days"]), ", ")

\* the task the prompt sets: four weeks under their keys, except in the
\* second handler of generatePlan.ts, which asks for the first week
TaskLines(v) ==
    CASE v = "generatePlan_b" -> <<"primeira semana">>
      [] v = "part_000" -> <<"monthDays", "week1", "week2", "week3", "week4">>
      [] OTHER -> <<"week1", "week2", "week3", "week4">>

\* JSON.stringify(profileData): members in order, an array's elements
\* separated by ','
ProfileKeys == <<"id", "experience", "goal", "weight", "height", "run_days">>

RECURSIVE StringifyFrom(_, _)
StringifyFrom(pd, i) ==
    IF i > Len(ProfileKeys) THEN <<>>
    ELSE LET k == ProfileKeys[i]
             value == IF k = "run_days" THEN Join(Get(pd[k]), ",")
                      ELSE IF k \in {"weight", "height"} THEN <<ToString(Get(pd[k]))>>
                      ELSE <<Get(pd[k])>>
         IN  (IF k \in DOMAIN pd THEN <<k>> \o value ELSE <<>>)
                \o StringifyFrom(pd, i + 1)

Stringify(pd) == StringifyFrom(pd, 1)

\* const prompt = `...`
BuildPrompt(v, pd) ==
    IF v = "part_001"
    THEN <<"Gere um plano de treino: ">> \o Stringify(pd)
            \o <<"Retorne apenas o JSON do plano.">>
    ELSE ProfileLines(v, pd) \o TaskLines(v)

----------------------------------------------------------------------------
(* The handler's locals *)

NoBody == [error |-> Null, success |-> FALSE, workout_plan |-> Null]

Fresh(method, header, body) ==
    [pc |-> "entry", method |-> method, header |-> header, profileData |-> body,
     userId |-> Null, aiResponse |-> Null, workoutPlanJson |-> Null, error |-> Null,
     responses |-> <<>>, verifyCalls |-> 0, providerCalls |-> 0, upserts |-> <<>>,
     stored |-> <<>>, prompt |-> Null]

Idle == [Fresh("POST", Null, Null) EXCEPT !.pc = "idle"]

\* return response.status(status).json(body)
Respond(s, status, body) ==
    [s EXCEPT !.pc = "done", !.responses = Append(@, [status |-> status, body |-> body])]

ErrorBody(msg) == [NoBody EXCEPT !.error = Some(msg)]

SuccessBody(v, plan) ==
    [NoBody EXCEPT !.success = TRUE,
                   !.workout_plan = IF RespondsWithPlan(v) THEN Some(plan) ELSE Null]

\* g's members override f's: { ...f, ...g }
Spread(f, g) ==
    [k \in DOMAIN f \cup DOMAIN g |-> IF k \in DOMAIN g THEN g[k] ELSE f[k]]

\* const finalUserData = { id: userId, ...profileData, workout_plan, ... }
FinalUserData(v, userId, profileData, plan) ==
    Spread(Spread([id |-> userId], profileData),
           IF NullsDiagnostics(v)
           THEN [workout_plan |-> Some(plan), planGenerationError |-> Null,
                 rawAIResponse |-> Null]
           ELSE [workout_plan |-> Some(plan)])

\* rawAIResponse of the diagnostic record: aiResponse || sentinel;
\* part_002 writes error.stack || sentinel
RawOfFailure(v, s, err) ==
    LET raw == IF v = "part_002" THEN err.stack ELSE s.aiResponse
    IN  IF raw = Null \/ raw = Some(<<>>) THEN Sentinel ELSE Get(raw)

\* { id: userId, planGenerationError: error.message, rawAIResponse: ... }
DiagnosticRecord(v, s, err) ==
    [id |-> s.userId, planGenerationError |-> Some(err.message),
     rawAIResponse |-> Some(RawOfFailure(v, s, err))]

\* the catch block: if (userId) await upsert(diagnostic); the 500 follows
Catch(v, s, err) ==
    IF CatchSeesUserId(v) /\ s.userId # Null
    THEN [s EXCEPT !.pc = "diag", !.error = Some(err),
                   !.upserts = Append(@, DiagnosticRecord(v, s, err))]
    ELSE Respond([s EXCEPT !.error = Some(err)], 500, ErrorBody(err.message))

----------------------------------------------------------------------------
(* The store: supabaseAdmin.from('profiles').upsert(record) *)

EmptyRow == [c \in Columns |-> Null]

\* Upsert that replaces the whole row: a column the record does not name
\* becomes null
UpsertReplacingRow(table, record) ==
    LET key == Get(record["id"])
        row == [c \in Columns |-> IF c \in DOMAIN record THEN record[c] ELSE Null]
    IN  [k \in DOMAIN table \cup {key} |-> IF k = key THEN row ELSE table[k]]

\* Upsert that, on a conflict, appends the days of the new plan to the
\* weeks of the stored one instead of replacing the stored plan
UpsertMergingPlans(table, record) ==
    LET key == Get(record["id"])
        old == IF key \in DOMAIN table THEN table[key] ELSE EmptyRow
        merged(po, pn) ==
            [w \in DOMAIN po \cup DOMAIN pn |->
                (IF w \in DOMAIN po THEN po[w] ELSE <<>>)
                    \o (IF w \in DOMAIN pn THEN pn[w] ELSE <<>>)]
        row == [c \in Columns |->
                  IF c \notin DOMAIN record THEN old[c]
                  ELSE IF c = "workout_plan" /\ old[c] # Null /\ record[c] # Null
                  THEN Some(merged(Get(old[c]), Get(record[c])))
                  ELSE record[c]]
    IN  [k \in DOMAIN table \cup {key} |-> IF k = key THEN row ELSE table[k]]

\* insert the row, or on a conflict on id update the columns the record
\* names and leave the others as they are
Upsert(table, record) ==
    LET key == Get(record["id"])
        old == IF key \in DOMAIN table THEN table[key] ELSE EmptyRow
        row == [c \in Columns |-> IF c \in DOMAIN record THEN record[c] ELSE old[c]]
    IN  [k \in DOMAIN table \cup {key} |-> IF k = key THEN row ELSE table[k]]

----------------------------------------------------------------------------
(* The handler between two awaits *)

MsgSplitOfUndefined == "Cannot read properties of undefined (reading 'split')"

\* Entry with the header read without `?.`: a request without a credential
\* throws in split and lands in the catch block
EntryReadsHeaderUnguarded(v, creds, s) ==
    IF s.method # "POST" THEN Respond(s, 405, ErrorBody(MsgMethod))
    ELSE IF ChecksServiceAccount(v) /\ ~creds
    THEN Catch(v, s, Error(MsgNoServiceAccount))
    ELSE IF NoToken(s.header) THEN Catch(v, s, Error(MsgSplitOfUndefined))
    ELSE IF ~creds THEN Catch(v, s, Error(MsgNoApp))
    ELSE [s EXCEPT !.pc = "verify", !.verifyCalls = @ + 1]

\* Entry with the profileData check ahead of the credential check; the
\* request's body is read before the header
EntryChecksProfileFirst(v, creds, s) ==
    IF s.method # "POST" THEN Respond(s, 405, ErrorBody(MsgMethod))
    ELSE IF ChecksServiceAccount(v) /\ ~creds
    THEN Catch(v, s, Error(MsgNoServiceAccount))
    ELSE IF s.profileData = Null THEN Respond(s, 400, ErrorBody(MsgNoProfile))
    ELSE IF NoToken(s.header) THEN Respond(s, 401, ErrorBody(MsgNoToken))
    ELSE IF ~creds THEN Catch(v, s, Error(MsgNoApp))
    ELSE [s EXCEPT !.pc = "verify", !.verifyCalls = @ + 1]

\* Entry with the method check moved into the try block, after the
\* credential check
EntryChecksMethodLate(v, creds, s) ==
    IF ChecksServiceAccount(v) /\ ~creds
    THEN Catch(v, s, Error(MsgNoServiceAccount))
    ELSE IF NoToken(s.header) THEN Respond(s, 401, ErrorBody(MsgNoToken))
    ELSE IF s.method # "POST" THEN Respond(s, 405, ErrorBody(MsgMethod))
    ELSE IF ~creds THEN Catch(v, s, Error(MsgNoApp))
    ELSE [s EXCEPT !.pc = "verify", !.verifyCalls = @ + 1]

\* from the entry to `await admin.auth().verifyIdToken(firebaseToken)`
Entry(v, creds, s) ==
    IF s.method # "POST" THEN Respond(s, 405, ErrorBody(MsgMethod))
    ELSE IF ChecksServiceAccount(v) /\ ~creds
    THEN Catch(v, s, Error(MsgNoServiceAccount))
    ELSE IF NoToken(s.header) THEN Respond(s, 401, ErrorBody(MsgNoToken))
    ELSE IF ~creds THEN Catch(v, s, Error(MsgNoApp))
    ELSE [s EXCEPT !.pc = "verify", !.verifyCalls = @ + 1]

\* AfterVerify without the profileData check: reading a field of the missing
\* profileData throws and lands in the catch block, with userId set
AfterVerifyWithoutProfileCheck(v, s) ==
    LET uid == VerifyIdToken(Get(BearerToken(s.header)))
        t == [s EXCEPT !.userId = uid]
    IN  IF uid = Null THEN Catch(v, s, Error(MsgBadToken))
        ELSE IF t.profileData = Null THEN Catch(v, t, Error(MsgJoinOfUndefined))
        ELSE IF JoinsRunDays(v) /\ "run_days" \notin DOMAIN Get(t.profileData)
        THEN Catch(v, t, Error(MsgJoinOfUndefined))
        ELSE [t EXCEPT !.pc = "provider", !.providerCalls = @ + 1,
                       !.prompt = Some(BuildPrompt(v, Get(t.profileData)))]

\* from the verifier's answer to the provider call
AfterVerify(v, s) ==
    LET uid == VerifyIdToken(Get(BearerToken(s.header)))
        t == [s EXCEPT !.userId = uid]
    IN  IF uid = Null THEN Catch(v, s, Error(MsgBadToken))
        ELSE IF t.profileData = Null THEN Respond(t, 400, ErrorBody(MsgNoProfile))
        ELSE IF JoinsRunDays(v) /\ "run_days" \notin DOMAIN Get(t.profileData)
        THEN Catch(v, t, Error(MsgJoinOfUndefined))
        ELSE [t EXCEPT !.pc = "provider", !.providerCalls = @ + 1,
                       !.prompt = Some(BuildPrompt(v, Get(t.profileData)))]

\* the value of aiResponse once the provider call is over
AssignedResponse(v, o) ==
    IF o.kind # "text" THEN Null
    ELSE IF v = "part_000" /\ o.text = <<>> THEN Null
    ELSE Some(o.text)

\* the error thrown between the provider call and the upsert, Null if none
GenerateFailure(v, o) ==
    IF o.kind = "throw" THEN Some(Error(MsgProvider))
    ELSE IF o.kind = "unsupported" THEN Some(Error(MsgModelNotFound))
    ELSE IF (o.kind = "null" \/ o.text = <<>>) /\ v = "part_000"
    THEN Some(Error(MsgVertexNoText))
    ELSE IF (o.kind = "null" \/ o.text = <<>>) /\ HasEmptyCheck(v)
    THEN Some(Error(MsgEmpty(v)))
    ELSE IF UsesJsonMatch(v) /\ ~HasJsonMatch(o.text) THEN Some(Error(MsgNoJson))
    ELSE IF ~ParseOk(Document(v, o.text))
    THEN Some(Error(IF v = "part_002" THEN MsgParse002 ELSE MsgSyntax))
    ELSE IF RequiresAllWeeks(v) /\ DOMAIN JsonParse(Document(v, o.text)) # WeekKeys
    THEN Some(Error(MsgIncomplete))
    ELSE Null

\* from the provider's answer to `await ...upsert(finalUserData)`
AfterGenerate(v, s, o) ==
    LET t == [s EXCEPT !.aiResponse = AssignedResponse(v, o)]
        plan == JsonParse(Document(v, o.text))
    IN  IF GenerateFailure(v, o) # Null THEN Catch(v, t, Get(GenerateFailure(v, o)))
        ELSE [t EXCEPT !.pc = "upsert", !.workoutPlanJson = Some(plan),
                       !.upserts = Append(@, FinalUserData(v, t.userId, Get(t.profileData), plan))]

\* if (error) throw error; ... return response.status(200)
AfterUpsert(v, s, outcome) ==
    LET t == [s EXCEPT !.stored = Append(@, outcome)]
    IN  IF outcome = "error" THEN Catch(v, t, StoreError)
        ELSE IF outcome = "throw" THEN Catch(v, t, Error(MsgStoreThrow))
        ELSE Respond(t, 200, SuccessBody(v, Get(t.workoutPlanJson)))

\* return response.status(500).json({ error: error.message }); the awaited
\* upsert stands unguarded in the catch block, so when it rejects the handler
\* rejects with it and the line that responds is not reached
AfterDiagnostic(s, outcome) ==
    LET t == [s EXCEPT !.stored = Append(@, outcome)]
    IN  IF outcome = "throw" THEN [t EXCEPT !.pc = "rejected"]
        ELSE Respond(t, 500, ErrorBody(Get(t.error).message))

\* the record of the upsert the invocation is waiting on
Pending(s) == s.upserts[Len(s.upserts)]

----------------------------------------------------------------------------
(* Actions *)

NoLast == [inv |-> Idle, profiles |-> [k \in {} |-> EmptyRow]]

NoProbe ==
    [applied |-> FALSE, text |-> <<>>, failure |-> Null, document |-> <<>>, plan |-> Null]

\* reply texts: every sequence of at most MaxTextLen tokens
Alphabet == {"{", "}", "prose", "week1"}
Texts == UNION {[1..n -> Alphabet] : n \in 0..MaxTextLen}

\* what version v makes of the reply text t between the provider call and
\* the upsert: the error it throws, the text it hands to JSON.parse, the plan
Probe(v, t) ==
    LET failure == GenerateFailure(v, [kind |-> "text", text |-> t])
        matched == ~UsesJsonMatch(v) \/ HasJsonMatch(t)
    IN  [applied |-> TRUE, text |-> t, failure |-> failure,
         document |-> IF matched THEN Document(v, t) ELSE <<>>,
         plan |-> IF failure = Null THEN Some(JsonParse(Document(v, t))) ELSE Null]

IsPrefix(a, b) == Len(a) <= Len(b) /\ a = SubSeq(b, 1, Len(a))

\* in a repeated invocation the provider and the store answer as they did
\* the first time (the provider is deterministic)
AsBefore(s) ==
    \/ last = NoLast
    \/ /\ s.aiResponse = last.inv.aiResponse
       /\ s.workoutPlanJson = last.inv.workoutPlanJson
       /\ IsPrefix(s.upserts, last.inv.upserts)
       /\ IsPrefix(s.stored, last.inv.stored)

Init ==
    /\ variant \in Variants
    /\ credsOk \in BOOLEAN
    /\ profiles = [k \in {} |-> EmptyRow]
    /\ inv = [p \in Procs |-> Idle]
    /\ runs = 0
    /\ last = NoLast
    /\ probe = NoProbe

\* a request arrives and the handler runs up to its first await
Request(p) ==
    /\ inv[p].pc \in {"idle", "done", "rejected"}
    /\ runs < MaxRuns
    /\ \E method \in Methods, header \in Headers, body \in Bodies :
         inv' = [inv EXCEPT ![p] = Entry(variant, credsOk, Fresh(method, header, body))]
    /\ runs' = runs + 1
    /\ last' = NoLast
    /\ UNCHANGED <<variant, credsOk, profiles, probe>>

\* verifyIdToken resolves or rejects
VerifyReturns(p) ==
    /\ inv[p].pc = "verify"
    /\ inv' = [inv EXCEPT ![p] = AfterVerify(variant, inv[p])]
    /\ UNCHANGED <<variant, credsOk, profiles, runs, last, probe>>

\* the provider call resolves or rejects
GenerateReturns(p) ==
    /\ inv[p].pc = "provider"
    /\ \E o \in ProviderOutcomes :
         /\ o.kind = "null" => CanReturnNoContent(variant)
         /\ inv' = [inv EXCEPT ![p] = AfterGenerate(variant, inv[p], o)]
         /\ AsBefore(inv'[p])
    /\ UNCHANGED <<variant, credsOk, profiles, runs, last, probe>>

\* the upsert of finalUserData resolves, with or without an error
UpsertReturns(p) ==
    /\ inv[p].pc = "upsert"
    /\ \E outcome \in StoreOutcomes :
         /\ profiles' = IF outcome = "ok" THEN Upsert(profiles, Pending(inv[p]))
                        ELSE profiles
         /\ inv' = [inv EXCEPT ![p] = AfterUpsert(variant, inv[p], outcome)]
         /\ AsBefore(inv'[p])
    /\ UNCHANGED <<variant, credsOk, runs, last, probe>>

\* the upsert of the diagnostic record resolves or rejects; its result is not read
DiagnosticReturns(p) ==
    /\ inv[p].pc = "diag"
    /\ \E outcome \in StoreOutcomes :
         /\ profiles' = IF outcome = "ok" THEN Upsert(profiles, Pending(inv[p]))
                        ELSE profiles
         /\ inv' = [inv EXCEPT ![p] = AfterDiagnostic(inv[p], outcome)]
         /\ AsBefore(inv'[p])
    /\ UNCHANGED <<variant, credsOk, runs, last, probe>>

\* the request of the finished invocation arrives once more, unchanged
Replay(p) ==
    /\ inv[p].pc \in {"done", "rejected"}
    /\ last = NoLast
    /\ inv' = [inv EXCEPT ![p] =
                  Entry(variant, credsOk,
                        Fresh(inv[p].method, inv[p].header, inv[p].profileData))]
    /\ last' = [inv |-> inv[p], profiles |-> profiles]
    /\ UNCHANGED <<variant, credsOk, profiles, runs, probe>>

\* the deployed version is given a reply text
Extract ==
    /\ ~probe.applied
    /\ \E t \in Texts : probe' = Probe(variant, t)
    /\ UNCHANGED <<variant, credsOk, profiles, inv, runs, last>>

Step(p) ==
    \/ Request(p)
    \/ VerifyReturns(p)
    \/ GenerateReturns(p)
    \/ UpsertReturns(p)
    \/ DiagnosticReturns(p)

\* one request at a time
Next == \E p \in SeqProcs : Step(p)

Spec == Init /\ [][Next]_vars

\* the same, where a finished invocation can also be repeated as it was
NextTwice == \E p \in SeqProcs : Step(p) \/ Replay(p)

SpecTwice == Init /\ [][NextTwice]_vars

\* a request of subject A arrives while another invocation may be running;
\* each of the two invocations runs once
ConcurrentRequest(p) ==
    /\ inv[p].pc = "idle"
    /\ runs < MaxRuns
    /\ \E body \in Bodies \ {Null} :
         inv' = [inv EXCEPT ![p] =
                   Entry(variant, credsOk,
                         Fresh("POST", Some(<<"Bearer ", "tokenA">>), body))]
    /\ runs' = runs + 1
    /\ last' = NoLast
    /\ UNCHANGED <<variant, credsOk, profiles, probe>>

StepConcurrent(p) ==
    \/ ConcurrentRequest(p)
    \/ VerifyReturns(p)
    \/ GenerateReturns(p)
    \/ UpsertReturns(p)
    \/ DiagnosticReturns(p)

\* two invocations whose awaits interleave
NextConcurrent == \E p \in Procs : StepConcurrent(p)

SpecConcurrent == Init /\ [][NextConcurrent]_vars

\* the path from a reply text to a plan, on its own
NextExtract == Extract

SpecExtract == Init /\ [][NextExtract]_vars

----------------------------------------------------------------------------
(* Reading an invocation *)

Done(p) == inv[p].pc = "done"

\* the handler's promise is settled: it responded, or it rejected
Finished(p) == inv[p].pc \in {"done", "rejected"}

\* the status of the response of a finished invocation
Status(p) == inv[p].responses[1].status

\* the invocation went through the catch block with this error
Caught(p) == inv[p].error

\* the records the invocation handed to upsert
IsDiagnostic(record) == "workout_plan" \notin DOMAIN record
Diagnostics(p) ==
    {inv[p].upserts[i] : i \in {j \in 1..Len(inv[p].upserts) : IsDiagnostic(inv[p].upserts[j])}}

\* the two outcomes a row can hold
HoldsPlan(row) ==
    /\ row.workout_plan # Null
    /\ row.planGenerationError = Null
    /\ row.rawAIResponse = Null

HoldsFailure(row) ==
    /\ row.workout_plan = Null
    /\ row.planGenerationError # Null
    /\ row.rawAIResponse # Null

----------------------------------------------------------------------------
(* Claims *)

\* C1: every persisted row holds exactly one of the two outcomes: a plan with
\* both diagnostic fields null, or both diagnostic fields with no plan.
C1_ExactlyOneOutcome ==
    \A id \in DOMAIN profiles : HoldsPlan(profiles[id]) \/ HoldsFailure(profiles[id])

\* C2: every record an invocation hands to upsert is keyed by the subject id
\* the verifier returned for that invocation's credential.
C2_UpsertsKeyedBySubject ==
    \A p \in Procs : \A i \in 1..Len(inv[p].upserts) :
        inv[p].upserts[i]["id"] = inv[p].userId

\* C3: a request whose credential the verifier rejects ends in 401, with no
\* provider call and no upsert.
C3_RejectedCredentialIs401 ==
    \A p \in Procs :
        (Done(p) /\ inv[p].verifyCalls = 1 /\ inv[p].userId = Null)
            => /\ Status(p) = 401
               /\ inv[p].providerCalls = 0
               /\ inv[p].upserts = <<>>

\* C4 as stated: a POST request without a bearer credential ends in 401 and
\* calls neither the verifier, nor the provider, nor upsert.
C4_NoCredentialIs401 ==
    \A p \in Procs :
        (Done(p) /\ inv[p].method = "POST" /\ NoToken(inv[p].header))
            => /\ Status(p) = 401
               /\ inv[p].verifyCalls = 0
               /\ inv[p].providerCalls = 0
               /\ inv[p].upserts = <<>>

\* C4 as amended: a POST request without a bearer credential calls neither
\* the verifier, nor the provider, nor upsert, and ends in 401, except in
\* part_000 when the service account key did not load: its configuration
\* check comes first and the response is 500.
C4_NoCredentialCallsNothing ==
    \A p \in Procs :
        (Done(p) /\ inv[p].method = "POST" /\ NoToken(inv[p].header))
            => /\ Status(p) = IF ChecksServiceAccount(variant) /\ ~credsOk THEN 500 ELSE 401
               /\ inv[p].verifyCalls = 0
               /\ inv[p].providerCalls = 0
               /\ inv[p].upserts = <<>>

\* a POST request without the Authorization header has been answered 401
C4_Witness ==
    \E p \in Procs :
        /\ Done(p) /\ inv[p].method = "POST" /\ inv[p].header = Null
        /\ Status(p) = 401

\* C5: an authenticated request without profileData ends in 400, with no
\* provider call and no upsert, although the subject id is known.
C5_NoProfileIs400 ==
    \A p \in Procs :
        (Done(p) /\ inv[p].userId # Null /\ inv[p].profileData = Null)
            => /\ Status(p) = 400
               /\ Len(inv[p].responses) = 1
               /\ inv[p].providerCalls = 0
               /\ inv[p].upserts = <<>>

\* a verified subject's request without profileData has been answered
C5_Witness ==
    \E p \in Procs :
        /\ Done(p) /\ inv[p].userId = Some("A") /\ inv[p].profileData = Null
        /\ inv[p].verifyCalls = 1 /\ Status(p) = 400

\* C6: a diagnostic record is handed to upsert only by an invocation that has
\* already called the provider.
C6_DiagnosticOnlyAfterProvider ==
    \A p \in Procs : Diagnostics(p) # {} => inv[p].providerCalls >= 1

\* C7: when the provider returned non-empty text and extraction or
\* deserialization then fails, the response is 500 and the diagnostic record
\* carries the error's message and the provider's text, unmodified.
C7_ParseFailureKeepsRawText ==
    \A p \in Procs :
        ( /\ Done(p)
          /\ inv[p].aiResponse \notin {Null, Some(<<>>)}
          /\ Caught(p) # Null
          /\ Get(Caught(p)).message \in {MsgNoJson, MsgSyntax, MsgParse002} )
            => /\ Status(p) = 500
               /\ \E d \in Diagnostics(p) :
                    /\ d.planGenerationError = Some(Get(Caught(p)).message)
                    /\ d.rawAIResponse = inv[p].aiResponse

\* C8: when generation ends without any text (the call throws, or returns
\* empty or no content), the response is 500 and the diagnostic record
\* carries the failure's message and the no-response sentinel.
C8_NoTextFailureWritesSentinel ==
    \A p \in Procs :
        ( /\ Done(p)
          /\ inv[p].providerCalls = 1
          /\ inv[p].aiResponse \in {Null, Some(<<>>)} )
            => /\ Status(p) = 500
               /\ Caught(p) # Null
               /\ \E d \in Diagnostics(p) :
                    /\ d.planGenerationError = Some(Get(Caught(p)).message)
                    /\ d.rawAIResponse = Some(Sentinel)

\* C9: every persisted workout_plan and every workout_plan of a 200 response
\* has the four keys week1..week4, and a document missing some of them is
\* completed, not rejected.
C9_PlanHasFourWeeks ==
    /\ \A id \in DOMAIN profiles :
         profiles[id].workout_plan # Null
            => DOMAIN Get(profiles[id].workout_plan) = WeekKeys
    /\ \A p \in Procs :
         (Done(p) /\ Status(p) = 200 /\ inv[p].responses[1].body.workout_plan # Null)
            => DOMAIN Get(inv[p].responses[1].body.workout_plan) = WeekKeys
    /\ \A p \in Procs :
         Caught(p) # Null => Get(Caught(p)).message # MsgIncomplete

\* C10: a successful invocation of a subject whose row holds a failure
\* leaves that row with the new plan and both diagnostic fields null.
C10_SuccessClearsFailure ==
    [][ \A p \in Procs :
          ( /\ inv[p].pc = "upsert"
            /\ inv'[p].pc = "done"
            /\ inv'[p].responses[1].status = 200
            /\ Get(inv[p].userId) \in DOMAIN profiles
            /\ HoldsFailure(profiles[Get(inv[p].userId)]) )
              => /\ profiles'[Get(inv[p].userId)].workout_plan = inv[p].workoutPlanJson
                 /\ profiles'[Get(inv[p].userId)].planGenerationError = Null
                 /\ profiles'[Get(inv[p].userId)].rawAIResponse = Null ]_vars

\* the row a record would make on its own, in a table without the key
RowOf(record) == Upsert([k \in {} |-> EmptyRow], record)[Get(record["id"])]

\* C11: the row an invocation writes is a function of the written record
\* alone: whatever the table held before, the row is the one the record
\* makes in an empty table, so no value of the prior row survives.
C11_WriteReplacesRow ==
    [][ \A id \in DOMAIN profiles' :
          (id \notin DOMAIN profiles \/ profiles'[id] # profiles[id])
            => \E p \in Procs :
                 /\ inv[p].pc \in {"upsert", "diag"}
                 /\ profiles'[id] = RowOf(Pending(inv[p])) ]_vars

\* the invocation is a repetition of the one before it, with the same
\* request, the same provider reply and the same answers of the store
Repeated(p) ==
    /\ Finished(p)
    /\ last # NoLast
    /\ inv[p] = last.inv

\* C12: when an invocation is repeated for the same subject with the same
\* profile, the same provider reply and the same outcome, the table after
\* the second run is the table the first run left.
C12_RepeatLeavesRecord ==
    \A p \in Procs : Repeated(p) => profiles = last.profiles

C12_Witness ==
    \E p \in Procs :
        /\ Repeated(p)
        /\ inv[p].stored = <<"ok">>
        /\ Status(p) = 200
        /\ Get(inv[p].userId) \in DOMAIN profiles

\* the success upsert of the invocation came back with an error
SuccessUpsertFailed(p) ==
    /\ inv[p].stored # <<>>
    /\ inv[p].stored[1] = "error"
    /\ ~IsDiagnostic(inv[p].upserts[1])

\* C13: an invocation issues at most one upsert; when the success upsert
\* returns an error no diagnostic upsert follows, and the response is 500
\* with the store error's message.
C13_AtMostOneUpsert ==
    \A p \in Procs :
        /\ Len(inv[p].upserts) <= 1
        /\ (Done(p) /\ SuccessUpsertFailed(p))
             => inv[p].responses = <<[status |-> 500, body |-> ErrorBody(StoreError.message)]>>

\* the invocation failed after authentication and the profileData check
FailedAfterValidation(p) ==
    /\ Finished(p)
    /\ inv[p].userId # Null
    /\ inv[p].profileData # Null
    /\ Caught(p) # Null

\* C14: every failure after authentication and the profileData check ends
\* in one response, 500 with the triggering error's message, whatever the
\* diagnostic upsert does (succeeds, returns an error, throws).
C14_FailureRespondsWhateverDiagnosticDoes ==
    \A p \in Procs :
        FailedAfterValidation(p)
          => inv[p].responses
               = <<[status |-> 500, body |-> ErrorBody(Get(Caught(p)).message)]>>

\* positions i..j of t run from the first '{' of t to its last '}'
IsOuterSpan(t, i, j) ==
    /\ i < j
    /\ t[i] = "{"
    /\ t[j] = "}"
    /\ \A k \in 1..(i - 1) : t[k] # "{"
    /\ \A k \in (j + 1)..Len(t) : t[k] # "}"

OuterSpans(t) ==
    {ij \in (1..Len(t)) \X (1..Len(t)) : IsOuterSpan(t, ij[1], ij[2])}

\* the text handed to JSON.parse is the span from the first '{' to the last
\* '}'; without such a span the reply fails with the no-document error; a
\* well-formed document inside the span is accepted whatever surrounds it
ExtractsOuterSpan ==
    LET t == probe.text
    IN  /\ \A ij \in OuterSpans(t) :
              /\ probe.document = SubSeq(t, ij[1], ij[2])
              /\ ParseOk(SubSeq(t, ij[1], ij[2]))
                   => /\ probe.failure = Null
                      /\ probe.plan = Some(JsonParse(SubSeq(t, ij[1], ij[2])))
        /\ (OuterSpans(t) = {} /\ t # <<>>) => probe.failure = Some(Error(MsgNoJson))

\* the reply is a document with text before its '{' or after its '}'
IsWrapped(t) ==
    \E ij \in OuterSpans(t) : ij[1] > 1 \/ ij[2] < Len(t)

\* C15 (as stated): in every version the reply goes through the extractor
\* before it is parsed: the parsed text is the span from the first '{' to the
\* last '}', a reply without such a span fails with the no-document error,
\* and a well-formed document wrapped in prose is accepted.
C15_ExtractionBeforeParse == probe.applied => ExtractsOuterSpan

\* C15 (amended): that holds in the versions that call match (generatePlan.ts
\* second handler, part_000, part_003); the other versions hand the reply to
\* JSON.parse as it is, and reject a document wrapped in prose.
C15_ExtractionWhereMatched ==
    probe.applied =>
        /\ UsesJsonMatch(variant) => ExtractsOuterSpan
        /\ (~UsesJsonMatch(variant) /\ IsWrapped(probe.text)) =>
              /\ probe.document = probe.text
              /\ probe.failure
                   = Some(Error(IF variant = "part_002" THEN MsgParse002 ELSE MsgSyntax))

C15_Witness ==
    /\ probe.applied
    /\ UsesJsonMatch(variant)
    /\ probe.text = <<"prose", "{", "week1", "}", "prose">>
    /\ probe.document = <<"{", "week1", "}">>
    /\ probe.failure = Null

\* C16: when the provider refuses a model as not found or unsupported, the
\* invocation goes on to the next candidate: it does not end on that failure
\* after a single attempt.
C16_UnsupportedModelAdvances ==
    \A p \in Procs :
        (Finished(p) /\ Caught(p) = Some(Error(MsgModelNotFound)))
          => inv[p].providerCalls > 1

\* C17: a request whose method is not POST ends in 405 before anything
\* else happens: no credential verification, no provider call, no upsert,
\* whatever its headers and body.
C17_NonPostIs405 ==
    \A p \in Procs :
        (inv[p].pc # "idle" /\ inv[p].method # "POST")
          => /\ inv[p].pc = "done"
             /\ inv[p].responses = <<[status |-> 405, body |-> ErrorBody(MsgMethod)]>>
             /\ inv[p].verifyCalls = 0
             /\ inv[p].providerCalls = 0
             /\ inv[p].upserts = <<>>

C17_Witness ==
    \E p \in Procs :
        /\ Done(p)
        /\ inv[p].method = "GET"
        /\ inv[p].header = Some(<<"Bearer ", "tokenA">>)
        /\ inv[p].profileData = Some(ProfComplete)
        /\ Status(p) = 405

\* C18: a 200 response is sent only after the success upsert has completed
\* without error, and the workout_plan of the response body is the plan that
\* upsert wrote.
C18_OkCarriesStoredPlan ==
    \A p \in Procs :
        (inv[p].responses # <<>> /\ inv[p].responses[1].status = 200)
          => /\ inv[p].stored = <<"ok">>
             /\ Len(inv[p].upserts) = 1
             /\ ~IsDiagnostic(inv[p].upserts[1])
             /\ inv[p].responses[1].body.workout_plan = inv[p].upserts[1].workout_plan

\* sub occurs in t as it is, piece after piece
Embeds(t, sub) ==
    \E i \in 1..(Len(t) - Len(sub) + 1) : SubSeq(t, i, i + Len(sub) - 1) = sub

\* a number of the profile as the prompt has to show it
ValueOrPlaceholder(pd, k) ==
    IF k \in DOMAIN pd THEN ToString(Get(pd[k])) ELSE Placeholder

\* the profile names at least one day to run on
HasRunDays(pd) == "run_days" \in DOMAIN pd /\ pd["run_days"] # Some(<<>>)

\* C19: for a profile with non-empty run_days, the prompt sent to the
\* provider embeds the experience, the goal, the comma-joined run_days, the
\* weight and the height (the value, or the not-informed placeholder when
\* absent), and names the four week keys.
C19_PromptEmbedsProfile ==
    \A p \in Procs :
        (inv[p].prompt # Null /\ HasRunDays(Get(inv[p].profileData)))
          => LET pd == Get(inv[p].profileData)
                 prompt == Get(inv[p].prompt)
             IN  /\ Embeds(prompt, <<Get(pd["experience"])>>)
                 /\ Embeds(prompt, <<Get(pd["goal"])>>)
                 /\ Embeds(prompt, Join(Get(pd["run_days"]), ", "))
                 /\ Embeds(prompt, <<ValueOrPlaceholder(pd, "weight")>>)
                 /\ Embeds(prompt, <<ValueOrPlaceholder(pd, "height")>>)
                 /\ \A w \in WeekKeys : Embeds(prompt, <<w>>)

\* the invocation went past the profileData presence check
PassedProfileCheck(p) ==
    /\ inv[p].pc # "idle"
    /\ inv[p].userId # Null
    /\ inv[p].profileData # Null

\* C20: prompt construction is total: every invocation that passes the
\* profileData presence check, with or without run_days, has its prompt
\* built and goes on to call the provider.
C20_PromptIsTotal ==
    \A p \in Procs :
        PassedProfileCheck(p) => (inv[p].prompt # Null /\ inv[p].providerCalls = 1)

\* the upserts of the invocation that the store applied
Applied(p) ==
    {inv[p].upserts[i] : i \in {j \in 1..Len(inv[p].stored) : inv[p].stored[j] = "ok"}}

\* both invocations are over and each had one upsert applied, on this key
BothWrote(key) ==
    \A p \in Procs :
        /\ Finished(p)
        /\ Cardinality(Applied(p)) = 1
        /\ \A record \in Applied(p) : record["id"] = Some(key)

\* C21: when two concurrent invocations of one subject have each performed
\* their upsert, the row is the row one of the two would have left running
\* alone: it never joins the plan of one with the error fields of the other.
C21_ConcurrentRowIsOneWriters ==
    \A key \in Subjects :
        BothWrote(key)
          => \E p \in Procs : \E record \in Applied(p) : profiles[key] = RowOf(record)

Statuses == {200, 400, 401, 405, 500}

\* C22: an invocation sends exactly one response, with status 200, 400,
\* 401, 405 or 500: no path sends two responses, and no path is over
\* without having sent one.
C22_ExactlyOneResponse ==
    \A p \in Procs :
        /\ Len(inv[p].responses) <= 1
        /\ Finished(p)
             => /\ Len(inv[p].responses) = 1
                /\ inv[p].responses[1].status \in Statuses

\* a POST request with neither a bearer credential nor profileData
LacksBoth(p) ==
    /\ Done(p)
    /\ inv[p].method = "POST"
    /\ NoToken(inv[p].header)
    /\ inv[p].profileData = Null

\* a 400 is returned only after the credential was verified, and accepted
VerifiedBefore400(p) ==
    (inv[p].responses # <<>> /\ inv[p].responses[1].status = 400)
      => /\ inv[p].verifyCalls = 1
         /\ inv[p].userId # Null
         /\ inv[p].providerCalls = 0

\* C23 (as stated): the gates come in the order method, credential
\* presence, verification, profileData presence: a POST request lacking both
\* the credential and profileData is answered 401, not 400, and a 400 is
\* only returned after the credential was verified.
C23_GatesInOrder ==
    \A p \in Procs :
        /\ LacksBoth(p) => (Status(p) = 401 /\ inv[p].verifyCalls = 0)
        /\ VerifiedBefore400(p)

\* C23 (amended): the same, except that part_000 checks the service-account
\* configuration between the method and the credential: when the key did not
\* load, a POST request lacking both is answered 500 there; it is never
\* answered 400.
C23_GatesInOrderAfterConfiguration ==
    \A p \in Procs :
        /\ LacksBoth(p)
             => /\ Status(p) = IF ChecksServiceAccount(variant) /\ ~credsOk
                               THEN 500 ELSE 401
                /\ inv[p].verifyCalls = 0
        /\ VerifiedBefore400(p)

C23_Witness ==
    \E p \in Procs :
        /\ LacksBoth(p)
        /\ inv[p].header = Some(<<"Basic ", "tokenA">>)
        /\ Status(p) = 401
        /\ inv[p].verifyCalls = 0

DiagnosticKeys == {"id", "planGenerationError", "rawAIResponse"}

\* the columns a diagnostic record does not name
KeptColumns == Columns \ DiagnosticKeys

\* C24: the diagnostic upsert writes only id, planGenerationError and
\* rawAIResponse: it carries no profile field and no workout_plan, and when
\* it returns, the workout_plan and the profile fields of every stored row
\* are what they were.
C24_DiagnosticKeepsPlanAndProfile ==
    [][ \A p \in Procs :
          (inv[p].pc = "diag" /\ inv'[p].pc # "diag")
            => /\ DOMAIN Pending(inv[p]) = DiagnosticKeys
               /\ DOMAIN profiles \subseteq DOMAIN profiles'
               /\ \A id \in DOMAIN profiles : \A c \in KeptColumns :
                     profiles'[id][c] = profiles[id][c] ]_vars

\* a failed regeneration was written onto the row of an earlier success
C24_Witness ==
    \E p \in Procs :
        /\ Done(p)
        /\ Status(p) = 500
        /\ inv[p].stored = <<"ok">>
        /\ IsDiagnostic(inv[p].upserts[1])
        /\ Get(inv[p].userId) \in DOMAIN profiles
        /\ LET row == profiles[Get(inv[p].userId)]
           IN  /\ row.planGenerationError = inv[p].upserts[1].planGenerationError
               /\ row.workout_plan # Null
               /\ row.experience # Null

====
